---- MODULE Spec2Model ----
(***************************************************************************)
(* tdlib-rs: the request/response correlation of the runtime crate         *)
(* (tdlib-rs/src/lib.rs: EXTRA_COUNTER, OBSERVER, receive, send_request)   *)
(* and the code generator of tdlib-rs-gen (types.rs: write_struct,         *)
(* functions.rs: write_function and the body of the functions it emits).   *)
(*                                                                         *)
(* Spec      the runtime: concurrent send_request calls, one driver        *)
(*           calling receive, and an engine that answers each submitted    *)
(*           request once and emits updates.                               *)
(* StraySpec Spec, with an engine that also repeats responses and answers  *)
(*           ids nobody submitted.                                         *)
(* AnySpec   StraySpec, with a poll primitive that may yield any text.     *)
(* GenSpec   the generator run over a schema of two definitions, followed  *)
(*           by calls of the emitted functions.                            *)
(***************************************************************************)
EXTENDS Integers, Sequences, FiniteSets, TLC

VARIABLES
    EXTRA_COUNTER,  \* lib.rs:75  static EXTRA_COUNTER: AtomicU32
    OBSERVER,       \* lib.rs:76  the table of pending waiters: id -> caller
    pc,             \* position of each send_request call
    extra,          \* the id each send_request call stamped under "@extra"
    result,         \* what each call's receiver holds (NoMsg until notified)
    outstanding,    \* the engine: calls whose request was submitted and not yet responded to
    driver,         \* "running" | "panicked": the thread that calls receive
    last,           \* history: what the last receive call did and what it returned
    runs,           \* history: the number of round_trips runs so far
    definitions,    \* generator input: the schema, a sequence of definitions
    config,         \* generator input: GeneratorConfig
    genpc,          \* "off" | "start" | "done": whether the generator has run
    typesMod,       \* emitted structs (module types)
    functionsMod,   \* emitted functions (module functions)
    call            \* history: the last call of an emitted function

rtVars == <<EXTRA_COUNTER, OBSERVER, pc, extra, result, outstanding, driver, last, runs>>
genVars == <<definitions, config, genpc, typesMod, functionsMod, call>>
vars == <<EXTRA_COUNTER, OBSERVER, pc, extra, result, outstanding, driver, last, runs,
          definitions, config, genpc, typesMod, functionsMod, call>>

(***************************************************************************)
(* Bounds                                                                  *)
(***************************************************************************)
NumCallers == 2
MaxRuns == 1
MaxParams == 2

(***************************************************************************)
(* Machine integers.  TLC's integers are 32-bit signed, so an unsigned     *)
(* 32-bit value is kept as two 16-bit limbs [hi, lo] = hi * 2^16 + lo, and *)
(* an unsigned or two's-complement 64-bit value as [top, hi, lo] =         *)
(* top * 2^32 + hi * 2^16 + lo.  Arithmetic wraps at the value's width.    *)
(***************************************************************************)
Radix == 256 * 256

u32(hi, lo) == [hi |-> hi, lo |-> lo]
u64(top, hi, lo) == [top |-> top, hi |-> hi, lo |-> lo]
Zero32 == u32(0, 0)
Max32 == u32(Radix - 1, Radix - 1)
small32(i) == u32(0, i)

\* x + k mod 2^32, for 0 <= k < 2^16
add32(x, k) ==
    IF x.lo + k < Radix THEN u32(x.hi, x.lo + k)
    ELSE u32((x.hi + 1) % Radix, x.lo + k - Radix)

\* x - k mod 2^32, for 0 <= k < 2^16
sub32(x, k) ==
    IF x.lo >= k THEN u32(x.hi, x.lo - k)
    ELSE u32((x.hi + Radix - 1) % Radix, x.lo + Radix - k)

\* the 64-bit value equal to the 32-bit value x
widen(x) == u64(0, x.hi, x.lo)

Callers == 1..NumCallers

(***************************************************************************)
(* Texts the poll primitive can yield.  A text is described by what        *)
(* serde_json makes of it: whether it parses at all, what it holds under   *)
(* "@extra" and "@client_id", and whether it decodes as an Update.         *)
(***************************************************************************)
Absent == [tag |-> "absent", val |-> u64(0, 0, 0)]
Other == [tag |-> "other", val |-> u64(0, 0, 0)]   \* present, but as_u64 / as_i64 is None
Num(v) == [tag |-> "num", val |-> v]

Ids == {Zero32, Max32}
Client1 == Num(u64(0, 0, 1))

NotJson == [json |-> FALSE, extra |-> Absent, client |-> Absent, update |-> FALSE]
Text(e, c, u) == [json |-> TRUE, extra |-> e, client |-> c, update |-> u]

\* responses: an id of the counter's width under "@extra"
Responses == {Text(Num(widen(i)), Absent, FALSE) : i \in Ids}

\* updates: no "@extra", a client id under "@client_id", decodable as Update or not
Updates == {Text(Absent, Client1, u) : u \in BOOLEAN}

\* every kind of text: also unparseable text, a map with neither key, a value
\* under "@extra" or "@client_id" that is no integer, and integers wider than
\* 32 bits
Messages ==
    Responses \cup Updates
    \cup {NotJson, Text(Absent, Absent, FALSE), Text(Absent, Other, FALSE)}
    \cup {Text(Other, c, FALSE) : c \in {Absent, Client1}}
    \cup {Text(Num(u64(1, i.hi, i.lo)), Client1, FALSE) : i \in Ids}
    \cup {Text(Absent, Num(v), TRUE) : v \in {u64(1, 0, 1), u64(0, Radix \div 2, 0)}}

NoMsg == [json |-> FALSE, extra |-> Other, client |-> Other, update |-> FALSE]

\* the response the engine gives to the request stamped with id
ResponseTo(id) == Text(Num(widen(id)), Client1, FALSE)

(***************************************************************************)
(* Integer conversions of receive                                          *)
(***************************************************************************)
\* mutant: the id is cut to 16 bits
as_u16(v) == u32(0, v.lo)

\* lib.rs:95  extra.as_u64().unwrap() as u32: the low 32 bits
as_u32(v) == u32(v.hi, v.lo)

\* lib.rs:99  response["@client_id"].as_i64().unwrap() as i32: the low 32
\* bits, read as two's complement
as_i32(v) ==
    IF v.hi >= Radix \div 2 THEN (v.hi - Radix) * Radix + v.lo
    ELSE v.hi * Radix + v.lo

(***************************************************************************)
(* observer::Observer                                                      *)
(***************************************************************************)
\* subscribe(extra): register a waiter under extra; the table holds one per id
subscribe(table, id, c) == [i \in DOMAIN table \cup {id} |-> IF i = id THEN c ELSE table[i]]

\* notify(extra, response): look up and remove the waiter under extra
notify_table(table, id) == [i \in DOMAIN table \ {id} |-> table[i]]

\* the caller whose waiter notify fulfils, 0 when none is registered
notify_waiter(table, id) == IF id \in DOMAIN table THEN table[id] ELSE 0

(***************************************************************************)
(* The runtime after start-up                                              *)
(***************************************************************************)
NoRet == [some |-> FALSE, client_id |-> 0]
EmptyTable == [i \in {} |-> 0]

GenIdle ==
    /\ definitions = << >>
    /\ config = [gen_bots_only_api |-> FALSE, use_shared_string |-> FALSE]
    /\ genpc = "off"
    /\ typesMod = << >>
    /\ functionsMod = << >>
    /\ call = [fn |-> 0, outcome |-> "none"]

Init ==
    /\ EXTRA_COUNTER = Zero32
    /\ OBSERVER = EmptyTable
    /\ pc = [c \in Callers |-> "idle"]
    /\ extra = [c \in Callers |-> Zero32]
    /\ result = [c \in Callers |-> NoMsg]
    /\ outstanding = {}
    /\ driver = "running"
    /\ last = [outcome |-> "none", ret |-> NoRet]
    /\ runs = 0
    /\ GenIdle

(***************************************************************************)
(* send_request (lib.rs:115-123), one action per await/lock/FFI boundary   *)
(***************************************************************************)
\* lib.rs:116  EXTRA_COUNTER.fetch_add(1, Ordering::Relaxed): the old value, wrapping
fetch_add(counter) == add32(counter, 1)

\* lib.rs:116-117  take the next id and stamp it under "@extra"
send_request_stamp(c) ==
    /\ pc[c] = "idle"
    /\ extra' = [extra EXCEPT ![c] = EXTRA_COUNTER]
    /\ EXTRA_COUNTER' = fetch_add(EXTRA_COUNTER)
    /\ pc' = [pc EXCEPT ![c] = "stamped"]
    /\ UNCHANGED <<OBSERVER, result, outstanding, driver, last, runs>>
    /\ UNCHANGED genVars

\* lib.rs:119  let receiver = OBSERVER.subscribe(extra)
send_request_subscribe(c) ==
    /\ pc[c] = "stamped"
    /\ OBSERVER' = subscribe(OBSERVER, extra[c], c)
    /\ pc' = [pc EXCEPT ![c] = "subscribed"]
    /\ UNCHANGED <<EXTRA_COUNTER, extra, result, outstanding, driver, last, runs>>
    /\ UNCHANGED genVars

\* lib.rs:120  tdjson::send(client_id, request.to_string())
send_request_send(c) ==
    /\ pc[c] = "subscribed"
    /\ pc' = [pc EXCEPT ![c] = "awaiting"]
    /\ outstanding' = outstanding \cup {c}
    /\ UNCHANGED <<EXTRA_COUNTER, OBSERVER, extra, result, driver, last, runs>>
    /\ UNCHANGED genVars

\* the call's waiter is the one registered under its id
Registered(c) == extra[c] \in DOMAIN OBSERVER /\ OBSERVER[extra[c]] = c

\* lib.rs:122  receiver.await.unwrap(): the response, or a panic once the
\* sender was dropped without sending (its table entry was replaced)
send_request_await(c) ==
    /\ pc[c] = "awaiting"
    /\ \/ /\ result[c] # NoMsg
          /\ pc' = [pc EXCEPT ![c] = "resolved"]
       \/ /\ result[c] = NoMsg
          /\ ~Registered(c)
          /\ pc' = [pc EXCEPT ![c] = "panicked"]
    /\ UNCHANGED <<EXTRA_COUNTER, OBSERVER, extra, result, outstanding, driver, last, runs>>
    /\ UNCHANGED genVars

(***************************************************************************)
(* receive (lib.rs:88-113)                                                 *)
(***************************************************************************)
\* mutant: a response that finds no waiter is an error
receive_outcome_orphan_panics(table, m) ==
    IF ~m.json THEN "panic"
    ELSE IF m.extra.tag # "absent"
    THEN IF m.extra.tag # "num" THEN "panic"
         ELSE IF as_u32(m.extra.val) \in DOMAIN table
              THEN "fulfilled" ELSE "panic"
    ELSE IF m.client.tag # "num" THEN "panic"
    ELSE IF m.update THEN "event"
    ELSE "discarded"

\* mutant: "@client_id" is looked at before "@extra"
receive_outcome_client_first(table, m) ==
    IF ~m.json THEN "panic"
    ELSE IF m.client.tag # "absent"
    THEN IF m.client.tag # "num" THEN "panic"
         ELSE IF m.update THEN "event"
         ELSE "discarded"
    ELSE IF m.extra.tag = "absent" THEN "panic"
    ELSE IF m.extra.tag # "num" THEN "panic"
    ELSE IF as_u32(m.extra.val) \in DOMAIN table
         THEN "fulfilled" ELSE "dropped"

\* what receive does with the polled text m, given the table
receive_outcome(table, m) ==
    IF ~m.json THEN "panic"                                  \* :91 from_str(..).unwrap()
    ELSE IF m.extra.tag # "absent"                           \* :93 response.get("@extra")
    THEN IF m.extra.tag # "num" THEN "panic"                 \* :95 as_u64().unwrap()
         ELSE IF as_u32(m.extra.val) \in DOMAIN table        \* :96 OBSERVER.notify
              THEN "fulfilled" ELSE "dropped"
    ELSE IF m.client.tag # "num" THEN "panic"                \* :99 as_i64().unwrap()
    ELSE IF m.update THEN "event"                            \* :101-103
    ELSE "discarded"                                         \* :104-106

\* lib.rs:102 / :112  the value receive returns
receive_return(o, m) ==
    IF o = "event" THEN [some |-> TRUE, client_id |-> as_i32(m.client.val)] ELSE NoRet

\* receive, when tdjson::receive(2.0) yielded Some(m); who: the calls whose
\* request the engine answers with m
receive(m, who) ==
    /\ driver = "running"
    /\ LET o == receive_outcome(OBSERVER, m)
           id == as_u32(m.extra.val)
           w == notify_waiter(OBSERVER, id)
       IN /\ OBSERVER' = IF o = "fulfilled" THEN notify_table(OBSERVER, id) ELSE OBSERVER
          /\ result' = IF o = "fulfilled" THEN [result EXCEPT ![w] = m] ELSE result
          /\ driver' = IF o = "panic" THEN "panicked" ELSE "running"
          /\ last' = [outcome |-> o, ret |-> receive_return(o, m)]
    /\ outstanding' = outstanding \ who
    /\ UNCHANGED <<EXTRA_COUNTER, pc, extra, runs>>
    /\ UNCHANGED genVars

\* the engine responds to the request of call c, echoing its "@extra"
receive_response(c) ==
    /\ c \in outstanding
    /\ receive(ResponseTo(extra[c]), {c})

\* the engine emits an update for a client
receive_update(m) ==
    /\ m \in Updates
    /\ receive(m, {})

\* the engine emits a response nobody asked for: a repeated one, or one for
\* an id that was never submitted
receive_stray(m) ==
    /\ m \in Responses
    /\ receive(m, {})

\* the poll primitive yields any other text
receive_any(m) ==
    /\ m \in Messages
    /\ receive(m, {})

\* tdjson::receive(2.0) yielded None within the timeout
receive_timeout ==
    /\ driver = "running"
    /\ last' = [outcome |-> "timeout", ret |-> NoRet]
    /\ UNCHANGED <<EXTRA_COUNTER, OBSERVER, pc, extra, result, outstanding, driver, runs>>
    /\ UNCHANGED genVars

(***************************************************************************)
(* A run of 2^32 - 1 complete round trips by one caller: each trip is      *)
(* send_request, the engine's response, the receive that fulfils it, and   *)
(* the return.  The run uses every id but the one just before the counter; *)
(* no id it uses has a waiter registered, so each trip leaves the table as *)
(* it found it, and the run only advances the counter by 2^32 - 1.         *)
(***************************************************************************)
round_trips(c) ==
    /\ runs < MaxRuns
    /\ runs' = runs + 1
    /\ pc[c] = "idle"
    /\ driver = "running"
    /\ DOMAIN OBSERVER \subseteq {sub32(EXTRA_COUNTER, 1)}
    /\ EXTRA_COUNTER' = sub32(EXTRA_COUNTER, 1)
    /\ last' = [outcome |-> "fulfilled", ret |-> NoRet]
    /\ UNCHANGED <<OBSERVER, pc, extra, result, outstanding, driver>>
    /\ UNCHANGED genVars

Next ==
    \/ \E c \in Callers : send_request_stamp(c)
    \/ \E c \in Callers : send_request_subscribe(c)
    \/ \E c \in Callers : send_request_send(c)
    \/ \E c \in Callers : send_request_await(c)
    \/ \E c \in Callers : receive_response(c)
    \/ \E m \in Updates : receive_update(m)
    \/ receive_timeout
    \/ \E c \in Callers : round_trips(c)

\* the engine answers each submitted request at most once and emits updates
Spec == Init /\ [][Next]_vars

NextStray ==
    \/ Next
    \/ \E m \in Responses : receive_stray(m)

\* the engine may also repeat responses and respond to ids nobody submitted
StraySpec == Init /\ [][NextStray]_vars

NextAny ==
    \/ NextStray
    \/ \E m \in Messages : receive_any(m)

\* the poll primitive may yield any text at all
AnySpec == Init /\ [][NextAny]_vars

(***************************************************************************)
(* The generator: tdlib_rs_parser::tl::Definition, GeneratorConfig         *)
(***************************************************************************)
ParamNames == <<"a", "b", "c", "d">>
Flags == [bots_only : BOOLEAN, optional : BOOLEAN]

\* the parameter lists of n parameters, in schema order
ParamLists(n) ==
    {[i \in 1..n |-> [name |-> ParamNames[i],
                      bots_only |-> f[i].bots_only,
                      optional |-> f[i].optional]] : f \in [1..n -> Flags]}

AllParamLists == UNION {ParamLists(n) : n \in 0..MaxParams}

Categories == {"Types", "Functions"}
TypeNames == {"Ok", "Chat", "User"}

Definition(name, category, ty, params, bots) ==
    [name |-> name, category |-> category, ty |-> ty, params |-> params, bots_only |-> bots]

\* lib.rs:24  SPECIAL_CASED_TYPES
SPECIAL_CASED_TYPES == {"Bool", "Bytes", "Int32", "Int53", "Int64", "Ok"}

\* lib.rs:26-28
ignore_type(ty) == \E x \in SPECIAL_CASED_TYPES : x = ty

\* lib.rs:39-52  generate_rust_code: the configuration it builds
generate_rust_code_config(gen_bots_only_api) ==
    [gen_bots_only_api |-> gen_bots_only_api, use_shared_string |-> FALSE]

(***************************************************************************)
(* rustifier                                                               *)
(***************************************************************************)
\* rustifier::definitions::is_for_bots_only / rustifier::parameters::is_for_bots_only
is_for_bots_only(x) == x.bots_only

\* rustifier::parameters::is_optional
is_optional(param) == param.optional

\* rustifier::parameters::attr_name: the Rust identifier of the field or
\* argument, made from the parameter's name
attr_name(param) == "r_" \o param.name

\* rustifier::definitions::type_name: the name of the definition's type
type_name(def) == def.ty

\* rustifier::definitions::function_name: the Rust identifier of the function
function_name(def) == "fn_" \o def.name

\* rustifier::types::qual_name: the Rust type a type reference maps to; the
\* unit type Ok maps to ()
qual_name(ty) == IF ty = "Ok" THEN "()" ELSE "crate::types::" \o ty

\* rustifier::types::is_ok: the result type is the unit type Ok
is_ok(ty) == ty = "Ok"

(***************************************************************************)
(* types.rs: write_struct                                                  *)
(***************************************************************************)
NoItem == [emitted |-> FALSE]

\* types.rs:60-98  one field per parameter that is not skipped
RECURSIVE struct_fields(_, _)
struct_fields(params, cfg) ==
    IF params = << >> THEN << >>
    ELSE LET param == Head(params)
             rest == struct_fields(Tail(params), cfg)
         IN IF is_for_bots_only(param) /\ ~cfg.gen_bots_only_api
            THEN rest
            ELSE <<[attr |-> attr_name(param), optional |-> is_optional(param)]>> \o rest

\* types.rs:27-102
write_struct(def, cfg) ==
    IF is_for_bots_only(def) /\ ~cfg.gen_bots_only_api
    THEN NoItem
    ELSE [emitted |-> TRUE, def |-> def.name, name |-> type_name(def),
          fields |-> struct_fields(def.params, cfg)]

\* types.rs:116-141  the structs written, in schema order
RECURSIVE write_types_mod(_, _)
write_types_mod(defs, cfg) ==
    IF defs = << >> THEN << >>
    ELSE LET d == Head(defs)
             rest == write_types_mod(Tail(defs), cfg)
         IN IF d.category = "Types" /\ ~ignore_type(d.ty) /\ d.params # << >>
            THEN <<write_struct(d, cfg)>> \o rest
            ELSE rest

(***************************************************************************)
(* functions.rs: write_function                                            *)
(***************************************************************************)
\* functions.rs:39-54  the documented arguments
RECURSIVE function_docs(_, _)
function_docs(params, cfg) ==
    IF params = << >> THEN <<"client_id">>
    ELSE LET param == Head(params)
             rest == function_docs(Tail(params), cfg)
         IN IF is_for_bots_only(param) /\ ~cfg.gen_bots_only_api
            THEN rest
            ELSE <<attr_name(param)>> \o rest

\* functions.rs:63-88  the inputs of the call signature
RECURSIVE function_inputs(_, _)
function_inputs(params, cfg) ==
    IF params = << >> THEN <<[attr |-> "client_id", optional |-> FALSE]>>
    ELSE LET param == Head(params)
             rest == function_inputs(Tail(params), cfg)
         IN IF is_for_bots_only(param) /\ ~cfg.gen_bots_only_api
            THEN rest
            ELSE <<[attr |-> attr_name(param), optional |-> is_optional(param)]>> \o rest

\* mutant: the payload loop without the bots-only filter
RECURSIVE payload_entries_unfiltered(_, _)
payload_entries_unfiltered(params, cfg) ==
    IF params = << >> THEN << >>
    ELSE <<[key |-> Head(params).name, value |-> attr_name(Head(params))]>>
         \o payload_entries_unfiltered(Tail(params), cfg)

\* functions.rs:95-106  the payload entries after "@type"
RECURSIVE payload_entries(_, _)
payload_entries(params, cfg) ==
    IF params = << >> THEN << >>
    ELSE LET param == Head(params)
             rest == payload_entries(Tail(params), cfg)
         IN IF is_for_bots_only(param) /\ ~cfg.gen_bots_only_api
            THEN rest
            ELSE <<[key |-> param.name, value |-> attr_name(param)]>> \o rest

\* functions.rs:93-107  json!({ "@type": name, entries })
function_payload(def, cfg) ==
    <<[key |-> "@type", value |-> def.name]>> \o payload_entries(def.params, cfg)

\* functions.rs:26-138
write_function(def, cfg) ==
    IF is_for_bots_only(def) /\ ~cfg.gen_bots_only_api
    THEN NoItem
    ELSE [emitted |-> TRUE, def |-> def.name, name |-> function_name(def),
          docs |-> function_docs(def.params, cfg),
          inputs |-> function_inputs(def.params, cfg),
          ret |-> qual_name(def.ty),
          payload |-> function_payload(def, cfg),
          unit |-> is_ok(def.ty),
          expected_type |-> type_name(def)]

\* functions.rs:152-177  the functions written, in schema order
RECURSIVE write_functions_mod(_, _)
write_functions_mod(defs, cfg) ==
    IF defs = << >> THEN << >>
    ELSE LET d == Head(defs)
             rest == write_functions_mod(Tail(defs), cfg)
         IN IF d.category = "Functions"
            THEN <<write_function(d, cfg)>> \o rest
            ELSE rest

(***************************************************************************)
(* The body write_function emits (functions.rs:109-134), run on the text   *)
(* send_request resolved to.  A text is described by the types serde_json  *)
(* decodes it as, and by the code of the crate::types::Error it decodes    *)
(* as, if it does.                                                         *)
(***************************************************************************)
ErrorCodes == {404, 429}
ResponseTexts ==
    {[decodes |-> d, code |-> 0] : d \in SUBSET (TypeNames \ {"Ok"})}
    \cup {[decodes |-> d \cup {"Error"}, code |-> c] :
            d \in SUBSET (TypeNames \ {"Ok"}), c \in ErrorCodes}

\* serde_json::from_str::<T>(&response).is_ok(), T a Rust type
from_str_ok(ty, response) == \E t \in response.decodes : qual_name(t) = ty

NoCall == [fn |-> 0, response |-> [decodes |-> {}, code |-> 0], attempts |-> << >>,
           outcome |-> "none", value |-> "", code |-> 0, expected_type |-> "",
           payload |-> [decodes |-> {}, code |-> 0]]

\* mutant: the API-error shape is tried before the success type
function_body_error_first(f, response) ==
    IF from_str_ok("crate::types::Error", response)
    THEN [attempts |-> <<"crate::types::Error">>, outcome |-> "Api", value |-> "",
          code |-> response.code, expected_type |-> "", payload |-> NoCall.payload]
    ELSE IF f.unit
    THEN [attempts |-> <<"crate::types::Error">>, outcome |-> "Ok", value |-> "()",
          code |-> 0, expected_type |-> "", payload |-> NoCall.payload]
    ELSE IF from_str_ok(f.ret, response)
    THEN [attempts |-> <<"crate::types::Error", f.ret>>, outcome |-> "Ok", value |-> f.ret,
          code |-> 0, expected_type |-> "", payload |-> NoCall.payload]
    ELSE [attempts |-> <<"crate::types::Error", f.ret>>, outcome |-> "Deserialization", value |-> "",
          code |-> 0, expected_type |-> f.expected_type, payload |-> response]

\* mutant: no case for the unit type, every function decodes its result type
function_body_no_unit_case(f, response) ==
    IF from_str_ok(f.ret, response)
    THEN [attempts |-> <<f.ret>>, outcome |-> "Ok", value |-> f.ret,
          code |-> 0, expected_type |-> "", payload |-> NoCall.payload]
    ELSE IF from_str_ok("crate::types::Error", response)
    THEN [attempts |-> <<f.ret, "crate::types::Error">>, outcome |-> "Api", value |-> "",
          code |-> response.code, expected_type |-> "", payload |-> NoCall.payload]
    ELSE [attempts |-> <<f.ret, "crate::types::Error">>, outcome |-> "Deserialization", value |-> "",
          code |-> 0, expected_type |-> f.expected_type, payload |-> response]

\* what a call of the emitted function f returns for the response text
function_body(f, response) ==
    IF f.unit
    THEN \* functions.rs:118-121
         IF from_str_ok("crate::types::Error", response)
         THEN [attempts |-> <<"crate::types::Error">>, outcome |-> "Api", value |-> "",
               code |-> response.code, expected_type |-> "", payload |-> NoCall.payload]
         ELSE [attempts |-> <<"crate::types::Error">>, outcome |-> "Ok", value |-> "()",
               code |-> 0, expected_type |-> "", payload |-> NoCall.payload]
    ELSE \* functions.rs:124-133
         IF from_str_ok(f.ret, response)
         THEN [attempts |-> <<f.ret>>, outcome |-> "Ok", value |-> f.ret,
               code |-> 0, expected_type |-> "", payload |-> NoCall.payload]
         ELSE IF from_str_ok("crate::types::Error", response)
         THEN [attempts |-> <<f.ret, "crate::types::Error">>, outcome |-> "Api", value |-> "",
               code |-> response.code, expected_type |-> "", payload |-> NoCall.payload]
         ELSE [attempts |-> <<f.ret, "crate::types::Error">>, outcome |-> "Deserialization", value |-> "",
               code |-> 0, expected_type |-> f.expected_type, payload |-> response]

(***************************************************************************)
(* generate_rust_code (lib.rs:39-80) and calls of the emitted functions    *)
(***************************************************************************)
RuntimeIdle ==
    /\ EXTRA_COUNTER = Zero32
    /\ OBSERVER = EmptyTable
    /\ pc = [c \in Callers |-> "idle"]
    /\ extra = [c \in Callers |-> Zero32]
    /\ result = [c \in Callers |-> NoMsg]
    /\ outstanding = {}
    /\ driver = "running"
    /\ last = [outcome |-> "none", ret |-> NoRet]
    /\ runs = 0

\* a schema of two definitions over one parameter list, and the flag
\* generate_rust_code is called with
GenInit ==
    /\ RuntimeIdle
    /\ \E ps \in AllParamLists, c1 \in Categories, c2 \in Categories,
          t1 \in {"Ok", "Chat"}, t2 \in TypeNames, b1 \in BOOLEAN, b2 \in BOOLEAN :
          definitions = <<Definition("chat", c1, t1, ps, b1),
                          Definition("getChat", c2, t2, ps, b2)>>
    /\ \E g \in BOOLEAN : config = generate_rust_code_config(g)
    /\ genpc = "start"
    /\ typesMod = << >>
    /\ functionsMod = << >>
    /\ call = NoCall

\* lib.rs:54-80  generate_rust_code_with_config: write_types_mod (:75), then
\* write_functions_mod (:77)
generate_rust_code_with_config ==
    /\ genpc = "start"
    /\ typesMod' = write_types_mod(definitions, config)
    /\ functionsMod' = write_functions_mod(definitions, config)
    /\ genpc' = "done"
    /\ UNCHANGED <<definitions, config, call>>
    /\ UNCHANGED rtVars

\* a call of the i-th emitted function whose send_request resolves to response
call_function(i, response) ==
    /\ genpc = "done"
    /\ i \in 1..Len(functionsMod)
    /\ functionsMod[i].emitted
    /\ LET r == function_body(functionsMod[i], response)
       IN call' = [fn |-> i, response |-> response, attempts |-> r.attempts,
                   outcome |-> r.outcome, value |-> r.value, code |-> r.code,
                   expected_type |-> r.expected_type, payload |-> r.payload]
    /\ UNCHANGED <<definitions, config, genpc, typesMod, functionsMod>>
    /\ UNCHANGED rtVars

GenNext ==
    \/ generate_rust_code_with_config
    \/ \E i \in 1..2, response \in ResponseTexts : call_function(i, response)

GenSpec == GenInit /\ [][GenNext]_vars

(***************************************************************************)
(* Vocabulary of the runtime claims                                        *)
(***************************************************************************)
\* the call has taken an id and has not been given a response
InFlight(c) == pc[c] \in {"stamped", "subscribed", "awaiting"} /\ result[c] = NoMsg

\* the step is one receive call, and the text it polled is m
Polled(m) ==
    /\ runs' = runs
    /\ pc' = pc
    /\ last'.outcome = receive_outcome(OBSERVER, m)
    /\ \/ receive(m, {})
       \/ \E c \in outstanding : m = ResponseTo(extra[c]) /\ receive(m, {c})

\* the texts a TDLib engine yields: responses carrying an id of the counter's
\* width, with or without "@client_id", and updates
EngineTexts == Responses \cup {ResponseTo(extra[c]) : c \in Callers} \cup Updates

\* the text carries exactly the id under "@extra"
Carries(m, id) == m.json /\ m.extra = Num(widen(id))

\* the 64-bit integer v is the 32-bit signed integer n
Int64Is(v, n) == v.top = 0 /\ v.hi < Radix \div 2 /\ v.hi * Radix + v.lo = n

\* C1: the ids stamped under "@extra" are pairwise distinct among the calls
\* still pending, and no call is assigned an id for which a waiter is still
\* registered.
C1_PendingIdsDistinct ==
    /\ \A c \in Callers : pc[c] = "stamped" => extra[c] \notin DOMAIN OBSERVER
    /\ \A c1 \in Callers, c2 \in Callers :
         (c1 # c2 /\ InFlight(c1) /\ InFlight(c2)) => extra[c1] # extra[c2]

\* C2: the waiter is registered before the request is submitted, so for every
\* submitted request the engine has not answered yet, whose response receive
\* may poll next, a waiter for its id exists.
C2_WaiterBeforeResponse ==
    \A c \in outstanding : extra[c] \in DOMAIN OBSERVER

\* C3: a polled response carrying an id is delivered to the one call whose
\* waiter is registered under that id and to no other; the call resolves to
\* that text verbatim, its waiter is removed, it resolves at most once and
\* never to a response carrying another id.
C3_DeliveredToOwnWaiter ==
    [][\A c \in Callers :
         /\ result'[c] # NoMsg => (Carries(result'[c], extra'[c]) /\ ~Registered(c)')
         /\ result[c] # NoMsg => result'[c] = result[c]
         /\ result'[c] # result[c]
              => /\ Registered(c)
                 /\ Polled(result'[c])
                 /\ \A d \in Callers \ {c} : result'[d] = result[d]
         /\ \A m \in EngineTexts :
              (Carries(m, extra[c]) /\ Registered(c) /\ Polled(m)) => result'[c] = m]_vars

\* C3 witness: a call has resolved to the response carrying its id, and a
\* later response found no waiter.
C3_Witness ==
    \E c \in Callers :
        pc[c] = "resolved" /\ Carries(result[c], extra[c]) /\ last.outcome = "dropped"

\* C4: a polled message whose correlation id has no registered waiter is
\* dropped: receive returns None without aborting and leaves the table, every
\* receiver and the counter unchanged.
C4_OrphanDropped ==
    [][\A m \in EngineTexts :
         (/\ m.json
          /\ m.extra.tag = "num"
          /\ \A i \in DOMAIN OBSERVER : widen(i) # m.extra.val
          /\ Polled(m))
         => (/\ last'.outcome = "dropped"
             /\ last'.ret = NoRet
             /\ driver' = "running"
             /\ OBSERVER' = OBSERVER
             /\ result' = result
             /\ pc' = pc
             /\ EXTRA_COUNTER' = EXTRA_COUNTER)]_vars

\* C4 witness: a response was dropped while another call's waiter stays
\* registered.
C4_Witness ==
    /\ last.outcome = "dropped"
    /\ driver = "running"
    /\ \E c \in Callers : Registered(c)

\* C5: a registered waiter leaves the table only when receive polls a response
\* carrying its id, which is then what its call resolves to: there is no
\* timeout and no eviction.
C5_PendingUntilResponse ==
    [][\A c \in Callers :
         (Registered(c) /\ ~Registered(c)')
         => \E m \in Messages :
               Polled(m) /\ Carries(m, extra[c]) /\ result'[c] = m]_vars

\* C6: a message carrying "@extra" goes only to the table and receive returns
\* None, also when it carries "@client_id"; a message with "@client_id" and no
\* "@extra" is returned as (update, client_id) when it decodes and discarded
\* when it does not, and in neither case is a waiter touched.
C6_OneChannel ==
    [][\A m \in EngineTexts :
         (Polled(m) /\ m.json)
         => /\ m.extra.tag # "absent"
                 => (last'.outcome \in {"fulfilled", "dropped"} /\ last'.ret = NoRet)
            /\ (m.extra.tag = "absent" /\ m.client.tag # "absent")
                 => /\ m.update => /\ last'.outcome = "event"
                                   /\ last'.ret.some
                                   /\ Int64Is(m.client.val, last'.ret.client_id)
                    /\ ~m.update => (last'.outcome = "discarded" /\ last'.ret = NoRet)
                    /\ OBSERVER' = OBSERVER
                    /\ result' = result
                    /\ pc' = pc]_vars

\* C6 witness: an update was returned with its client id while a waiter is
\* registered.
C6_Witness ==
    /\ last.outcome = "event"
    /\ last.ret = [some |-> TRUE, client_id |-> 1]
    /\ \E c \in Callers : Registered(c)

\* C10: whatever text is polled, receive ends by fulfilling a waiter, returning
\* an update or discarding the text, and the driver can call receive again.
C10_ReceiveNeverAborts ==
    /\ driver = "running"
    /\ last.outcome \in {"none", "timeout", "fulfilled", "event", "dropped", "discarded"}

(***************************************************************************)
(* Vocabulary of the generator claims                                      *)
(***************************************************************************)
\* the definition an emitted struct or function was written from
DefOf(item) == CHOOSE d \in {definitions[k] : k \in DOMAIN definitions} : d.name = item.def

Emitted(mod) == {mod[k] : k \in DOMAIN mod} \ {NoItem}

\* the sequence without its first element
Rest(q) == SubSeq(q, 2, Len(q))

Attrs(q) == [k \in DOMAIN q |-> q[k].attr]
Keys(q) == [k \in DOMAIN q |-> q[k].key]
Values(q) == [k \in DOMAIN q |-> q[k].value]
Names(q) == [k \in DOMAIN q |-> q[k].name]

\* the Rust identifiers of the parameters named by keys
Idents(keys) == [k \in DOMAIN keys |-> attr_name([name |-> keys[k]])]

\* a is b with some elements left out, in b's order
RECURSIVE IsSubSeq(_, _)
IsSubSeq(a, b) ==
    IF a = << >> THEN TRUE
    ELSE IF b = << >> THEN FALSE
    ELSE IF Head(a) = Head(b) THEN IsSubSeq(Tail(a), Tail(b))
    ELSE IsSubSeq(a, Tail(b))

\* the function that was called and the definition it was written from
Called == functionsMod[call.fn]

C8_UnitOnlyChecksError ==
    (call.outcome # "none" /\ DefOf(Called).ty = "Ok")
    => LET r == call.response
       IN /\ call.outcome = "Api" <=> "Error" \in r.decodes
          /\ call.outcome = "Api" => call.code = r.code
          /\ call.outcome # "Api" => (call.outcome = "Ok" /\ call.value = "()")
          /\ \A k \in DOMAIN call.attempts : call.attempts[k] = "crate::types::Error"

\* C8 witness: a function returning Ok failed with the API error 429 of the text.
C8_Witness ==
    /\ call.outcome = "Api"
    /\ DefOf(Called).ty = "Ok"
    /\ call.code = 429

\* C9: in every emitted function the documented arguments, the inputs and the
\* payload entries after "@type" are one and the same subsequence of the
\* definition's parameters, and an emitted struct over the same parameters
\* has exactly these fields.
C9_SameFilterEverywhere ==
    genpc = "done"
    => \A f \in Emitted(functionsMod) :
         LET kept == Keys(Rest(f.payload))
         IN /\ IsSubSeq(kept, Names(DefOf(f).params))
            /\ f.payload[1] = [key |-> "@type", value |-> DefOf(f).name]
            /\ Values(Rest(f.payload)) = Idents(kept)
            /\ f.docs = Idents(kept) \o <<"client_id">>
            /\ Attrs(f.inputs) = Idents(kept) \o <<"client_id">>
            /\ \A t \in Emitted(typesMod) :
                 DefOf(t).params = DefOf(f).params => Attrs(t.fields) = Idents(kept)

\* C9 witness: a struct and a function were emitted over parameters of which
\* one is kept and one is left out.
C9_Witness ==
    /\ genpc = "done"
    /\ \E t \in Emitted(typesMod), f \in Emitted(functionsMod) :
         /\ Len(t.fields) = 1
         /\ Len(DefOf(f).params) = 2
         /\ Len(f.payload) = 2

====
